---- MODULE Spec2Model ----
(***************************************************************************)
(* Model of the vote service of vote/app.py: the POST / submission path,   *)
(* get_vote_stats (ledger first, queue fallback) and the per-request       *)
(* cached Redis handle, run by a pool of request handlers against two      *)
(* external stores (the Redis list 'votes' and the Postgres table votes).  *)
(***************************************************************************)
EXTENDS Integers, Sequences, FiniteSets, TLC

\* ---------------------------------------------------------------- bounds
NClients == 3       \* size of the handler pool of the concurrent scenario
MaxQueue == 2       \* entries the list 'votes' can hold in the model
MaxDraw == 40       \* largest value of the random draw in the minting scenario

Procs == 1..NClients

\* ------------------------------------------------------- values and inputs
None == "None"

\* request.form.get('vote'): None when the field is missing
FormVotes == {"a", "b", "A", "", None}

\* voter tokens are strings of hex digits, modelled as sequences of 0..15
Deadbeef == <<13, 14, 10, 13, 11, 14, 14, 15>>
\* request.cookies.get('voter_id'): <<>> for an absent cookie (None) and for an
\* empty one, both false in `if not voter_id`; or a token the client kept
Cookies == {<<>>, Deadbeef}
\* values of random.getrandbits(64) the model draws
Draws == {171}

RECURSIVE HexDigits(_)
\* the digits of hex(n) after the "0x" prefix
HexDigits(n) == IF n < 16 THEN <<n>> ELSE Append(HexDigits(n \div 16), n % 16)

\* hex(random.getrandbits(64))[2:-1]: the prefix and the LAST character dropped
MintToken(r) == SubSeq(HexDigits(r), 1, Len(HexDigits(r)) - 1)

\* a fresh token whatever the cookie
EnsureVoterIdAlwaysMint(cookie, r) == MintToken(r)

\* `if not voter_id`: a missing or empty cookie gets a fresh token
EnsureVoterId(cookie, r) ==
    IF cookie = <<>> THEN MintToken(r) ELSE cookie

\* ------------------------------------------------------------ queue entries
\* An entry of the Redis list is a byte string.  form says what decoding it
\* gives: "badutf8" (decode raises UnicodeDecodeError), "badjson" (json.loads
\* raises JSONDecodeError), a JSON value that is not an object ("string",
\* "number", "array", "null"), or "object"; key is the value under 'vote' of
\* an object (NoKey when the object has no such key).
NoKey == "NoKey"

Entry(form, key, vid) == [form |-> form, vote |-> key, voter_id |-> vid]

\* json.dumps({'voter_id':..., 'vote':..., 'timestamp':...}); the timestamp is
\* never read back by this program and is left out of the entry
Dumps(vid, v) == Entry("object", v, vid)

\* entries written by other clients of the list
ForeignEntries ==
    { Entry(f, NoKey, <<>>) : f \in {"badutf8", "badjson", "string"} }
    \cup { Entry("object", "c", <<>>) }

\* vote_data.decode('utf-8') then json.loads: the exception raised, or the value
Loads(e) ==
    IF e.form = "badutf8" THEN [exc |-> "UnicodeDecodeError"]
    ELSE IF e.form = "badjson" THEN [exc |-> "JSONDecodeError"]
    ELSE [exc |-> None, type |-> e.form, vote |-> e.vote]

\* vote.get('vote'): only a dict has .get
GetVote(val) ==
    IF val.type # "object" THEN [exc |-> "AttributeError"]
    ELSE [exc |-> None, value |-> IF val.vote = NoKey THEN None ELSE val.vote]

\* a comparison that ignores case
IsOptionAnyCase(x) == x \in {"a", "b", "A"}

\* `if x in ['a', 'b']`
IsOption(x) == x \in {"a", "b"}

\* except (json.JSONDecodeError, UnicodeDecodeError): continue
InnerCatches(exc) == exc \in {"JSONDecodeError", "UnicodeDecodeError"}

\* no handler around the fallback
OuterCatchesNothing(exc) == FALSE

\* a handler for the errors of the Redis client only
OuterCatchesRedisOnly(exc) == exc = "ConnectionError"

\* except Exception as redis_error
OuterCatches(exc) == TRUE

Zeros == [a |-> 0, b |-> 0, total |-> 0]

\* one iteration of `for vote_data in votes`: the new counts, or the exception
\* that leaves the loop
CountEntry(counts, e) ==
    LET l == Loads(e) IN
    IF l.exc # None
    THEN IF InnerCatches(l.exc) THEN [exc |-> None, counts |-> counts]
         ELSE [exc |-> l.exc]
    ELSE LET gv == GetVote(l) IN
         IF gv.exc # None
         THEN IF InnerCatches(gv.exc) THEN [exc |-> None, counts |-> counts]
              ELSE [exc |-> gv.exc]
         ELSE IF IsOption(gv.value)
              THEN [exc |-> None,
                    counts |-> [counts EXCEPT ![gv.value] = @ + 1]]
              ELSE [exc |-> None, counts |-> counts]

RECURSIVE CountLoop(_, _)
\* the loop over the entries read, left to right, stopping at an exception
CountLoop(counts, votes) ==
    IF votes = <<>> THEN [exc |-> None, counts |-> counts]
    ELSE LET r == CountEntry(counts, Head(votes)) IN
         IF r.exc # None THEN r ELSE CountLoop(r.counts, Tail(votes))

\* a total that counts option a only
SnapshotTotalOfA(counts) ==
    [a |-> counts["a"], b |-> counts["b"], total |-> counts["a"]]

\* total = vote_counts['a'] + vote_counts['b']; return {'a':..., 'b':..., 'total':...}
Snapshot(counts) ==
    [a |-> counts["a"], b |-> counts["b"], total |-> counts["a"] + counts["b"]]

\* value of statsRet when the exception leaves get_vote_stats
Raised == -1

\* the body of the second try of get_vote_stats once lrange has returned:
\* the snapshot returned, or "raised" when the exception escapes
QueueTally(votes) ==
    LET r == CountLoop([o \in {"a", "b"} |-> 0], votes) IN
    IF r.exc = None THEN [ret |-> 103, stats |-> Snapshot(r.counts)]
    ELSE IF OuterCatches(r.exc) THEN [ret |-> 110, stats |-> Zeros]
    ELSE [ret |-> Raised, stats |-> Zeros]

\* ------------------------------------------------------------------- ledger
LedgerVotes == {"a", "b", "c"}

\* contents of the table the model starts from: empty, both options present,
\* one option missing next to a row for another value
LedgerTables ==
    { [a |-> 0, b |-> 0, c |-> 0],
      [a |-> 3, b |-> 5, c |-> 0],
      [a |-> 0, b |-> 2, c |-> 1] }

\* cursor.fetchall() of SELECT vote, COUNT(*) ... GROUP BY vote: one row per
\* value that occurs in the table
FetchAll(table) == { <<v, table[v]>> : v \in {w \in LedgerVotes : table[w] > 0} }

\* every row counted as one vote
LedgerTallyRows(results) ==
    Snapshot([o \in {"a", "b"} |-> Cardinality({row \in results : row[1] = o})])

\* vote_counts = {'a': 0, 'b': 0}; for vote, count in results: ...
LedgerTally(results) ==
    LET counts == [o \in {"a", "b"} |->
                     IF \E row \in results : row[1] = o /\ IsOption(row[1])
                     THEN (CHOOSE row \in results : row[1] = o)[2]
                     ELSE 0]
    IN Snapshot(counts)

\* -------------------------------------------------------------------- state
VARIABLES
    queue,          \* the Redis list 'votes'
    queueUp,        \* Redis answers commands
    ledger,         \* the table votes: number of rows per value of vote
    queueHang,      \* Redis accepts commands and never replies
    ledgerState,    \* "up", "refuse" (connect raises), "queryerr" (execute
                    \* raises), "hang" (neither answers nor refuses)
    workers,        \* the handlers that serve requests
    pc,             \* where each handler is in its request
    req,            \* the request a handler serves
    g_redis,        \* g.redis of the request: "unset", "handle" or None
    voter_id,
    vote,
    error_message,
    stats,          \* what get_vote_stats returned
    statsRet,       \* the line of the return get_vote_stats left by; 0 before
    draw,           \* the value random.getrandbits(64) gave, NoDraw without a call
    rpushes,        \* rpush commands the request has sent
    resp,           \* the response: its format and the cookie it sets
    health,         \* the body health_check answers
    conn            \* ledger connections of the request that are open

vars == <<queue, queueUp, queueHang, ledger, ledgerState, workers, pc, req,
          g_redis, voter_id, vote, error_message, stats, statsRet, draw,
          rpushes, resp, health, conn>>

handlerVars == <<pc, req, g_redis, voter_id, vote, error_message, stats,
                 statsRet, draw, rpushes, resp, health, conn>>

storeVars == <<queue, queueUp, queueHang, ledger, ledgerState>>

MsgInvalid == "Invalid vote option"
MsgFailed == "Failed to record vote. Please try again."
MsgUnavailable == "Service temporarily unavailable. Please try again."

\* the requests the handlers are given
Requests ==
    { [route |-> "/", method |-> "POST", vote |-> v, cookie |-> c, json |-> j] :
        v \in FormVotes, c \in Cookies, j \in BOOLEAN }
    \cup { [route |-> "/api/stats", method |-> "GET", vote |-> None,
            cookie |-> <<>>, json |-> FALSE] }
    \cup { [route |-> "/api/health", method |-> "GET", vote |-> None,
            cookie |-> <<>>, json |-> FALSE] }
    \cup { [route |-> "/classic", method |-> "GET", vote |-> None,
            cookie |-> c, json |-> FALSE] : c \in Cookies }

\* draw of a request that did not call random.getrandbits
NoDraw == -1

NoResp == [format |-> None, set_cookie |-> FALSE, cookie |-> <<>>]

NoHealth == [status |-> None, redis |-> None]

NoRequest == [route |-> None, method |-> None, vote |-> None,
              cookie |-> <<>>, json |-> FALSE]

InitHandlers ==
    /\ pc = [p \in Procs |-> "idle"]
    /\ req = [p \in Procs |-> NoRequest]
    /\ g_redis = [p \in Procs |-> "unset"]
    /\ voter_id = [p \in Procs |-> <<>>]
    /\ vote = [p \in Procs |-> None]
    /\ error_message = [p \in Procs |-> None]
    /\ stats = [p \in Procs |-> Zeros]
    /\ statsRet = [p \in Procs |-> 0]
    /\ draw = [p \in Procs |-> NoDraw]
    /\ rpushes = [p \in Procs |-> 0]
    /\ resp = [p \in Procs |-> NoResp]
    /\ health = [p \in Procs |-> NoHealth]
    /\ conn = [p \in Procs |-> 0]

Init ==
    /\ queue = <<>>
    /\ queueUp \in BOOLEAN
    /\ queueHang = FALSE
    /\ ledger \in LedgerTables
    /\ ledgerState \in {"up", "refuse", "queryerr"}
    /\ workers = {1}
    /\ InitHandlers

\* Redis(host="redis", db=0, socket_timeout=5, socket_connect_timeout=5):
\* seconds a command or a connect waits before it raises TimeoutError
SocketTimeout == 5

\* psycopg2.connect(host=, database=, user=, password=) names no
\* connect_timeout and sets no statement timeout: 0, which libpq reads as
\* wait without limit
ConnectTimeout == 0

\* a call to a store comes back, with a reply or an exception: at once when
\* the store does not hang, when the timeout runs out when there is one
ComesBack(hangs, timeout) == ~hangs \/ timeout > 0

\* Redis replies to a command: a command sent to a Redis that hangs raises
\* TimeoutError as one sent to a Redis that is down raises ConnectionError
RedisAnswers == queueUp /\ ~queueHang

\* no handler around the ping
GetRedisCatchesNothing(exc) == FALSE

\* except Exception as e, in get_redis
GetRedisCatches(exc) == TRUE

\* what get_redis gives when the exception of the ping leaves it
Escaped == "escaped"

\* get_redis(): the handle cached in g, or a new one that answered the ping,
\* or None (cached as well) when connecting or the ping failed
get_redis(g, up) ==
    IF g = "unset"
    THEN IF up THEN "handle"
         ELSE IF GetRedisCatches("ConnectionError") THEN None ELSE Escaped
    ELSE g

\* g.redis after get_redis: the client object is stored before the ping
Cached(h) == IF h = Escaped THEN "handle" ELSE h

\* the response vote() and classic_vote() render sets the cookie voter_id;
\* jsonify sets none
Respond(r, vid) ==
    IF r.route = "/classic" \/ (r.route = "/" /\ ~r.json)
    THEN [format |-> "html", set_cookie |-> TRUE, cookie |-> vid]
    ELSE [format |-> "json", set_cookie |-> FALSE, cookie |-> <<>>]

\* "connected" if redis else "disconnected"
RedisStatus(h) == IF h # None THEN "connected" ELSE "disconnected"

\* a push that is acknowledged and lost
RPushLost(q, data) == q

\* a push that overwrites the last entry
RPushOverwrite(q, data) ==
    IF q = <<>> THEN <<data>> ELSE [q EXCEPT ![Len(q)] = data]

\* a push that replaces the record the voter already has in the list
RPushDedup(q, data) ==
    IF \E i \in 1..Len(q) : q[i].voter_id = data.voter_id
    THEN [q EXCEPT ![CHOOSE i \in 1..Len(q) : q[i].voter_id = data.voter_id] = data]
    ELSE Append(q, data)

\* redis.rpush('votes', data)
RPush(q, data) == Append(q, data)

\* what vote() does after the POST block: the JSON answer calls
\* get_vote_stats, the HTML answer is rendered at once
AfterPost(r) == IF r.json THEN "stats_db" ELSE "done"

\* handlers that have a valid vote to push: the model keeps room for them
Pending ==
    Cardinality({p \in workers : pc[p] \in {"vote_redis", "vote_push"}
                                   /\ IsOption(req[p].vote)})

HasRoom == Len(queue) + Pending < MaxQueue

\* a handler takes a request: vote() up to `if request.method == 'POST'`, or
\* api_stats()
Begin(p, r, d) ==
    /\ p \in workers
    /\ pc[p] \in {"idle", "done", "raised"}
    /\ req' = [req EXCEPT ![p] = r]
    /\ g_redis' = [g_redis EXCEPT ![p] = "unset"]
    /\ voter_id' = [voter_id EXCEPT ![p] =
                      IF r.route \in {"/", "/classic"}
                      THEN EnsureVoterId(r.cookie, d) ELSE <<>>]
    /\ vote' = [vote EXCEPT ![p] = None]
    /\ error_message' = [error_message EXCEPT ![p] = None]
    /\ stats' = [stats EXCEPT ![p] = Zeros]
    /\ statsRet' = [statsRet EXCEPT ![p] = 0]
    /\ draw' = [draw EXCEPT ![p] =
                  IF r.route \in {"/", "/classic"} /\ r.cookie = <<>>
                  THEN d ELSE NoDraw]
    /\ rpushes' = [rpushes EXCEPT ![p] = 0]
    /\ resp' = [resp EXCEPT ![p] = NoResp]
    /\ health' = [health EXCEPT ![p] = NoHealth]
    /\ conn' = [conn EXCEPT ![p] = 0]
    /\ pc' = [pc EXCEPT ![p] =
                IF r.route = "/" THEN "vote_redis"
                ELSE IF r.route = "/classic" THEN "classic"
                ELSE IF r.route = "/api/health" THEN "health_redis"
                ELSE "stats_db"]
    /\ UNCHANGED <<storeVars, workers>>

\* the response is rendered when the handler is done
Finish(p, next) ==
    resp' = IF next = "done"
            THEN [resp EXCEPT ![p] = Respond(req[p], voter_id[p])]
            ELSE resp

\* redis = get_redis(); if redis: ... else: error_message = ...
VoteGetRedis(p) ==
    /\ pc[p] = "vote_redis"
    /\ g_redis[p] = "unset" => ComesBack(queueHang, SocketTimeout)
    /\ LET h == get_redis(g_redis[p], RedisAnswers) IN
       /\ g_redis' = [g_redis EXCEPT ![p] = Cached(h)]
       /\ IF h = Escaped
          THEN /\ pc' = [pc EXCEPT ![p] = "raised"]
               /\ UNCHANGED <<error_message, resp>>
          ELSE IF h # None
          THEN /\ pc' = [pc EXCEPT ![p] = "vote_push"]
               /\ UNCHANGED <<error_message, resp>>
          ELSE /\ error_message' = [error_message EXCEPT ![p] = MsgUnavailable]
               /\ pc' = [pc EXCEPT ![p] = AfterPost(req[p])]
               /\ Finish(p, AfterPost(req[p]))
    /\ UNCHANGED <<storeVars, workers, req, voter_id, vote, stats, statsRet,
                   draw, rpushes, health, conn>>

\* a POST branch that sends rpush a second time when the first one raised
VotePushRetry(p) ==
    /\ pc[p] = "vote_push"
    /\ IsOption(req[p].vote) => ComesBack(queueHang, SocketTimeout)
    /\ LET vote_option == req[p].vote
           again == IsOption(vote_option) /\ ~RedisAnswers /\ rpushes[p] = 0
           next == IF again THEN "vote_push" ELSE AfterPost(req[p])
       IN /\ IF IsOption(vote_option)
             THEN /\ vote' = [vote EXCEPT ![p] = vote_option]
                  /\ rpushes' = [rpushes EXCEPT ![p] = @ + 1]
                  /\ IF RedisAnswers
                     THEN /\ queue' = RPush(queue, Dumps(voter_id[p], vote_option))
                          /\ UNCHANGED error_message
                     ELSE /\ error_message' =
                               IF again THEN error_message
                               ELSE [error_message EXCEPT ![p] = MsgFailed]
                          /\ UNCHANGED queue
             ELSE /\ error_message' = [error_message EXCEPT ![p] = MsgInvalid]
                  /\ UNCHANGED <<vote, queue, rpushes>>
          /\ pc' = [pc EXCEPT ![p] = next]
          /\ Finish(p, next)
    /\ UNCHANGED <<queueUp, queueHang, ledger, ledgerState, workers, req,
                   g_redis, voter_id, stats, statsRet, draw, health, conn>>

\* the try block of the POST branch
VotePush(p) ==
    /\ pc[p] = "vote_push"
    /\ IsOption(req[p].vote) => ComesBack(queueHang, SocketTimeout)
    /\ LET vote_option == req[p].vote IN
       IF IsOption(vote_option)
       THEN /\ vote' = [vote EXCEPT ![p] = vote_option]
            /\ rpushes' = [rpushes EXCEPT ![p] = @ + 1]
            /\ IF RedisAnswers
               THEN /\ queue' = RPush(queue, Dumps(voter_id[p], vote_option))
                    /\ UNCHANGED error_message
               ELSE /\ error_message' = [error_message EXCEPT ![p] = MsgFailed]
                    /\ UNCHANGED queue
       ELSE /\ error_message' = [error_message EXCEPT ![p] = MsgInvalid]
            /\ UNCHANGED <<vote, queue, rpushes>>
    /\ pc' = [pc EXCEPT ![p] = AfterPost(req[p])]
    /\ Finish(p, AfterPost(req[p]))
    /\ UNCHANGED <<queueUp, queueHang, ledger, ledgerState, workers, req,
                   g_redis, voter_id, stats, statsRet, draw, health, conn>>

\* ledger connections open when the first try is left: psycopg2.connect opens
\* one unless it raises, and conn.close() is the last statement but one of the
\* try block, reached only when execute and fetchall did not raise
OpenAfterLedger(s) == IF s = "queryerr" THEN 1 ELSE 0

\* conn is a local of get_vote_stats: a connection left open is closed after
\* the return only if and when the interpreter finalizes the object
ConnAtReturn(c, next) ==
    IF next \in {"done", "raised"} /\ c > 0 THEN {0, c} ELSE {c}

\* a first try without its return: the fallback runs after a good ledger read
StatsLedgerFallsThrough(p) ==
    /\ pc[p] = "stats_db"
    /\ ComesBack(ledgerState = "hang", ConnectTimeout)
    /\ IF ledgerState = "up"
       THEN /\ stats' = [stats EXCEPT ![p] = LedgerTally(FetchAll(ledger))]
            /\ statsRet' = [statsRet EXCEPT ![p] = 77]
       ELSE UNCHANGED <<stats, statsRet>>
    /\ pc' = [pc EXCEPT ![p] = "stats_redis"]
    /\ conn' = [conn EXCEPT ![p] = OpenAfterLedger(ledgerState)]
    /\ UNCHANGED <<storeVars, workers, req, g_redis, voter_id, vote,
                   error_message, draw, rpushes, resp, health>>

\* the first try of get_vote_stats: connect, query, count, return; or the
\* exception that enters the fallback
StatsLedger(p) ==
    /\ pc[p] = "stats_db"
    /\ ComesBack(ledgerState = "hang", ConnectTimeout)
    /\ IF ledgerState = "up"
       THEN /\ stats' = [stats EXCEPT ![p] = LedgerTally(FetchAll(ledger))]
            /\ statsRet' = [statsRet EXCEPT ![p] = 77]
            /\ pc' = [pc EXCEPT ![p] = "done"]
       ELSE /\ pc' = [pc EXCEPT ![p] = "stats_redis"]
            /\ UNCHANGED <<stats, statsRet>>
    /\ Finish(p, pc'[p])
    /\ conn' = [conn EXCEPT ![p] = OpenAfterLedger(ledgerState)]
    /\ UNCHANGED <<storeVars, workers, req, g_redis, voter_id, vote,
                   error_message, draw, rpushes, health>>

\* redis = get_redis(); if not redis: return zeros
StatsGetRedis(p) ==
    /\ pc[p] = "stats_redis"
    /\ g_redis[p] = "unset" => ComesBack(queueHang, SocketTimeout)
    /\ LET h == get_redis(g_redis[p], RedisAnswers) IN
       /\ g_redis' = [g_redis EXCEPT ![p] = Cached(h)]
       /\ IF h = Escaped
          THEN /\ pc' = [pc EXCEPT ![p] = "raised"]
               /\ UNCHANGED <<stats, statsRet>>
          ELSE IF h = None
          THEN /\ stats' = [stats EXCEPT ![p] = Zeros]
               /\ statsRet' = [statsRet EXCEPT ![p] = 87]
               /\ pc' = [pc EXCEPT ![p] = "done"]
          ELSE /\ pc' = [pc EXCEPT ![p] = "stats_lrange"]
               /\ UNCHANGED <<stats, statsRet>>
    /\ Finish(p, pc'[p])
    /\ \E c \in ConnAtReturn(conn[p], pc'[p]) : conn' = [conn EXCEPT ![p] = c]
    /\ UNCHANGED <<storeVars, workers, req, voter_id, vote, error_message,
                   draw, rpushes, health>>

\* what lrange and the loop give: lrange raises when Redis does not answer
ReadQueue(q, up) ==
    IF up THEN QueueTally(q)
    ELSE IF OuterCatches("ConnectionError") THEN [ret |-> 110, stats |-> Zeros]
    ELSE [ret |-> Raised, stats |-> Zeros]

\* the second try of get_vote_stats
StatsLrange(p) ==
    /\ pc[p] = "stats_lrange"
    /\ ComesBack(queueHang, SocketTimeout)
    /\ LET r == ReadQueue(queue, RedisAnswers) IN
       /\ stats' = [stats EXCEPT ![p] = r.stats]
       /\ statsRet' = [statsRet EXCEPT ![p] = r.ret]
       /\ pc' = [pc EXCEPT ![p] = IF r.ret = Raised THEN "raised" ELSE "done"]
    /\ Finish(p, pc'[p])
    /\ \E c \in ConnAtReturn(conn[p], pc'[p]) : conn' = [conn EXCEPT ![p] = c]
    /\ UNCHANGED <<storeVars, workers, req, g_redis, voter_id, vote,
                   error_message, draw, rpushes, health>>

\* classic_vote(): the page is rendered and the cookie set
ClassicVote(p) ==
    /\ pc[p] = "classic"
    /\ pc' = [pc EXCEPT ![p] = "done"]
    /\ Finish(p, "done")
    /\ UNCHANGED <<storeVars, workers, req, g_redis, voter_id, vote,
                   error_message, stats, statsRet, draw, rpushes, health,
                   conn>>

\* health_check(): redis = get_redis(); the answer names Redis only
HealthCheck(p) ==
    /\ pc[p] = "health_redis"
    /\ g_redis[p] = "unset" => ComesBack(queueHang, SocketTimeout)
    /\ LET h == get_redis(g_redis[p], RedisAnswers) IN
       /\ g_redis' = [g_redis EXCEPT ![p] = Cached(h)]
       /\ IF h = Escaped
          THEN /\ pc' = [pc EXCEPT ![p] = "raised"]
               /\ UNCHANGED health
          ELSE /\ health' = [health EXCEPT ![p] =
                               [status |-> "healthy", redis |-> RedisStatus(h)]]
               /\ pc' = [pc EXCEPT ![p] = "done"]
    /\ Finish(p, pc'[p])
    /\ UNCHANGED <<storeVars, workers, req, voter_id, vote, error_message,
                   stats, statsRet, draw, rpushes, conn>>

\* ------------------------------------------------------------- environment
\* Redis stops or starts answering
SetQueueUp ==
    /\ queueUp' = ~queueUp
    /\ UNCHANGED <<queue, queueHang, ledger, ledgerState, workers, handlerVars>>

\* Postgres changes between answering, refusing connections and failing queries
SetLedgerState(s) ==
    /\ s # ledgerState
    /\ ledgerState' = s
    /\ UNCHANGED <<queue, queueUp, queueHang, ledger, workers, handlerVars>>

\* another client of the list pushes an entry
ExternalPush(e) ==
    /\ RedisAnswers
    /\ HasRoom
    /\ queue' = Append(queue, e)
    /\ UNCHANGED <<queueUp, queueHang, ledger, ledgerState, workers,
                   handlerVars>>

\* the next request of a handler, any request at all
Accept(p) ==
    \E r \in Requests, d \in Draws :
        /\ IsOption(r.vote) => HasRoom
        /\ Begin(p, r, d)

Handler(p) ==
    \/ Accept(p)
    \/ VoteGetRedis(p)
    \/ VotePush(p)
    \/ StatsLedger(p)
    \/ StatsGetRedis(p)
    \/ StatsLrange(p)
    \/ ClassicVote(p)
    \/ HealthCheck(p)

Next ==
    \/ \E p \in Procs : Handler(p)
    \/ SetQueueUp
    \/ \E s \in {"up", "refuse", "queryerr"} : SetLedgerState(s)
    \/ \E e \in ForeignEntries : ExternalPush(e)

Spec == Init /\ [][Next]_vars

\* ------------------------------------------- NClients concurrent submissions
\* test_concurrent_voting: every client posts one valid vote, without a cookie;
\* Redis answers, the ledger does not, the list starts empty
ConcRequests ==
    { r \in Requests : r.route = "/" /\ IsOption(r.vote) /\ r.cookie = <<>> }

StatsRequest == CHOOSE r \in Requests : r.route = "/api/stats"

InitConc ==
    /\ queue = <<>>
    /\ queueUp = TRUE
    /\ queueHang = FALSE
    /\ ledger \in LedgerTables
    /\ ledgerState \in {"refuse", "queryerr"}
    /\ workers = Procs
    /\ InitHandlers

\* handler p serves the one submission of client p
SubmitConc(p) ==
    /\ pc[p] = "idle"
    /\ \E r \in ConcRequests, d \in Draws : Begin(p, r, d)

AllReturned == \A p \in Procs : pc[p] = "done"

\* once every submission has returned, the tally is read through /api/stats
ObserveConc(p) ==
    /\ AllReturned
    /\ Begin(p, StatsRequest, CHOOSE d \in Draws : TRUE)

NextConc ==
    \E p \in Procs :
        \/ SubmitConc(p)
        \/ ObserveConc(p)
        \/ VoteGetRedis(p)
        \/ VotePush(p)
        \/ StatsLedger(p)
        \/ StatsGetRedis(p)
        \/ StatsLrange(p)

SpecConc == InitConc /\ [][NextConc]_vars

\* ---------------------------------------------------- minting voter tokens
\* two clients open /classic again and again, with or without a cookie; the
\* draws run over 0..MaxDraw
MintDraws == 0..MaxDraw

MintRequests == { r \in Requests : r.route = "/classic" }

InitMint ==
    /\ queue = <<>>
    /\ queueUp = TRUE
    /\ queueHang = FALSE
    /\ ledger = [v \in LedgerVotes |-> 0]
    /\ ledgerState = "up"
    /\ workers = {1, 2}
    /\ InitHandlers

MintAccept(p) == \E r \in MintRequests, d \in MintDraws : Begin(p, r, d)

NextMint == \E p \in Procs : MintAccept(p) \/ ClassicVote(p)

SpecMint == InitMint /\ [][NextMint]_vars

\* ------------------------------------------------------------ hanging stores
\* one handler serves submissions, stats and health requests while either
\* store may also hang: it accepts the connection or the command and sends
\* no reply
HangRequests ==
    { r \in Requests : /\ r.cookie = <<>>
                       /\ r.vote \in {"a", None}
                       /\ r.route = "/" => r.json }

InitHang ==
    /\ queue = <<>>
    /\ queueUp \in BOOLEAN
    /\ queueHang \in BOOLEAN
    /\ ledger = [v \in LedgerVotes |-> 0]
    /\ ledgerState \in {"up", "refuse", "queryerr", "hang"}
    /\ workers = {1}
    /\ InitHandlers

\* Redis starts or stops hanging
SetQueueHang ==
    /\ queueHang' = ~queueHang
    /\ UNCHANGED <<queue, queueUp, ledger, ledgerState, workers, handlerVars>>

AcceptHang(p) ==
    \E r \in HangRequests, d \in Draws :
        /\ IsOption(r.vote) => HasRoom
        /\ Begin(p, r, d)

\* the steps of a request that has been accepted
Serve(p) ==
    \/ VoteGetRedis(p)
    \/ VotePush(p)
    \/ StatsLedger(p)
    \/ StatsGetRedis(p)
    \/ StatsLrange(p)
    \/ ClassicVote(p)
    \/ HealthCheck(p)

NextHang ==
    \/ \E p \in Procs : AcceptHang(p) \/ Serve(p)
    \/ SetQueueUp
    \/ SetQueueHang
    \/ \E s \in {"up", "refuse", "queryerr", "hang"} : SetLedgerState(s)

\* the thread of a request runs its next statement once the call it waits in
\* can come back, however often the stores change state meanwhile
SpecHang ==
    /\ InitHang
    /\ [][NextHang]_vars
    /\ \A p \in Procs : SF_vars(Serve(p))

\* ------------------------------------------------------------------- claims
\* the error kind a message of vote() stands for
ErrorKind(msg) ==
    IF msg = MsgInvalid THEN "InvalidOption"
    ELSE IF msg \in {MsgFailed, MsgUnavailable} THEN "StoreUnavailable"
    ELSE None

\* handler p takes a step
Steps(p) == pc'[p] # pc[p]

\* the POST block of handler p is over
Posted(p) ==
    /\ req[p].method = "POST"
    /\ pc[p] \in {"stats_db", "stats_redis", "stats_lrange", "done", "raised"}

\* number of entries of q that are objects whose vote is x
WellFormed(q, x) ==
    Cardinality({i \in 1..Len(q) : q[i].form = "object" /\ q[i].vote = x})

\* C1: when the append of a valid vote fails (Redis does not answer the ping
\* of get_redis, or rpush raises), the call ends with a StoreUnavailable error
\* and the list is as it was; and a call that reports no error has its record
\* in the list.
C1_AppendFailureReported ==
    [][\A p \in Procs :
        /\ ( /\ pc[p] \in {"vote_redis", "vote_push"}
             /\ Steps(p)
             /\ req[p].vote \in {"a", "b"}
             /\ ~queueUp )
           => /\ ErrorKind(error_message'[p]) = "StoreUnavailable"
              /\ queue' = queue
        /\ ( /\ pc[p] = "vote_push"
             /\ Steps(p)
             /\ req[p].vote \in {"a", "b"}
             /\ error_message'[p] = None )
           => \E i \in 1..Len(queue') :
                 queue'[i] = [form |-> "object", vote |-> req[p].vote,
                              voter_id |-> voter_id[p]]
      ]_vars

C1_Witness ==
    \E p \in Procs :
        /\ Posted(p)
        /\ req[p].vote \in {"a", "b"}
        /\ error_message[p] = MsgFailed
        /\ g_redis[p] = "handle"

\* C2: a submit whose option is not exactly "a" or "b" ends with the error
\* kind InvalidOption, whatever the state of the queue store.
C2_InvalidOptionAlways ==
    \A p \in Procs :
        (Posted(p) /\ req[p].vote \notin {"a", "b"})
            => ErrorKind(error_message[p]) = "InvalidOption"

\* C3: a submit whose option is not "a" or "b" leaves the list and the table
\* unchanged, and whatever a handler appends to the list is one record whose
\* vote is "a" or "b".
C3_InvalidOptionWritesNothing ==
    [][\A p \in Procs :
        Steps(p) =>
          /\ ledger' = ledger
          /\ \/ queue' = queue
             \/ /\ req[p].vote \in {"a", "b"}
                /\ Len(queue') = Len(queue) + 1
                /\ SubSeq(queue', 1, Len(queue)) = queue
                /\ queue'[Len(queue')].form = "object"
                /\ queue'[Len(queue')].vote \in {"a", "b"}
      ]_vars

C3_Witness ==
    \E p \in Procs :
        /\ Posted(p)
        /\ req[p].vote = "A"
        /\ g_redis[p] = "handle"
        /\ error_message[p] = MsgInvalid

\* C4: with the ledger unreachable and the queue reachable, a successful
\* submit of x makes the queue-fallback tally of x one larger than it was just
\* before the submit and leaves the tally of the other option as it was.
C4_SubmitAddsOne ==
    [][\A p \in Procs :
        ( /\ pc[p] = "vote_push"
          /\ Steps(p)
          /\ error_message'[p] = None
          /\ vote'[p] \in {"a", "b"} )
        => LET before == ReadQueue(queue, TRUE).stats
               after == ReadQueue(queue', TRUE).stats
               x == vote'[p]
               y == IF x = "a" THEN "b" ELSE "a"
           IN /\ after[x] = before[x] + 1
              /\ after[y] = before[y]
      ]_vars

\* C5: NClients valid votes submitted concurrently against a reachable queue
\* that starts empty all succeed, and the queue-fallback tally read after all
\* of them have returned has total NClients.
C5_ConcurrentTotal ==
    /\ \A p \in Procs :
          Posted(p) => /\ error_message[p] = None
                       /\ vote[p] = req[p].vote
    /\ \A q \in Procs :
          (AllReturned /\ req[q].route = "/api/stats")
            => /\ statsRet[q] = 103
               /\ stats[q].total = NClients
               /\ stats[q].a + stats[q].b = NClients
               /\ Len(queue) = NClients

C5_Witness ==
    /\ AllReturned
    /\ \E q \in Procs : /\ req[q].route = "/api/stats"
                         /\ stats[q].total = NClients
                         /\ stats[q].a > 0
                         /\ stats[q].b > 0

\* C6: when the ledger read succeeds, get_vote_stats returns for "a" and for
\* "b" the count of the table for it (0 without a row), whatever the list
\* holds and whether or not Redis answers.
C6_LedgerCountsExact ==
    [][\A p \in Procs :
        (pc[p] = "stats_db" /\ Steps(p) /\ ledgerState = "up")
        => /\ pc'[p] = "done"
           /\ statsRet'[p] = 77
           /\ stats'[p].a = ledger["a"]
           /\ stats'[p].b = ledger["b"]
      ]_vars

C6_Witness ==
    \E p \in Procs :
        /\ pc[p] = "done"
        /\ statsRet[p] = 77
        /\ stats[p].a = 0
        /\ stats[p].b = 2
        /\ ledger["c"] = 1
        /\ WellFormed(queue, "a") > 0
        /\ \E i \in 1..Len(queue) : queue[i].form = "string"

\* C7: with the ledger unreachable and the queue reachable, the tally counts
\* every well-formed entry by its option and skips every other entry, entry
\* by entry, without an error.
C7_MalformedEntriesSkipped ==
    [][\A p \in Procs :
        (pc[p] = "stats_lrange" /\ Steps(p) /\ queueUp)
        => /\ pc'[p] = "done"
           /\ stats'[p].a = WellFormed(queue, "a")
           /\ stats'[p].b = WellFormed(queue, "b")
      ]_vars

\* C8: when neither the ledger nor the queue answers, get_vote_stats returns
\* a = 0, b = 0 and total = 0 instead of failing.
C8_BothDownZeros ==
    [][\A p \in Procs :
        ( /\ Steps(p)
          /\ ~queueUp
          /\ \/ pc[p] = "stats_redis" /\ g_redis[p] # "handle"
             \/ pc[p] = "stats_lrange" )
        => /\ pc'[p] = "done"
           /\ stats'[p] = [a |-> 0, b |-> 0, total |-> 0]
      ]_vars

C8_Witness ==
    \E p \in Procs :
        /\ pc[p] = "done"
        /\ statsRet[p] = 110
        /\ g_redis[p] = "handle"
        /\ ~queueUp
        /\ ledgerState # "up"
        /\ WellFormed(queue, "a") > 0

\* the store a return of get_vote_stats took its numbers from
SourceOf(ret) ==
    IF ret = 77 THEN "LEDGER" ELSE IF ret = 103 THEN "QUEUE" ELSE "UNAVAILABLE"

\* C9: every snapshot get_vote_stats returns carries a source naming the
\* store that produced its numbers.
C9_SnapshotNamesSource ==
    \A p \in Procs :
        statsRet[p] \in {77, 87, 103, 110}
        => IF "source" \in DOMAIN stats[p]
           THEN stats[p].source = SourceOf(statsRet[p])
           ELSE FALSE

\* C10: get_vote_stats never raises to its caller, whatever the states of the
\* ledger and of Redis and whatever the list holds: every call that leaves the
\* fallback returns a snapshot.
C10_StatsNeverRaises ==
    [][\A p \in Procs :
        (pc[p] \in {"stats_db", "stats_redis", "stats_lrange"} /\ Steps(p))
        => /\ pc'[p] \in {"stats_redis", "stats_lrange", "done"}
           /\ pc'[p] = "done" => /\ statsRet'[p] \in {77, 87, 103, 110}
                                  /\ DOMAIN stats'[p] = {"a", "b", "total"}
      ]_vars

C10_Witness ==
    \E p \in Procs :
        /\ pc[p] = "done"
        /\ statsRet[p] = 110
        /\ queueUp
        /\ \E i \in 1..Len(queue) : queue[i].form = "string"

\* C11: in every snapshot get_vote_stats returns, by whichever return, total is
\* the sum of the counts of a and of b.
C11_TotalIsSum ==
    \A p \in Procs :
        statsRet[p] \in {77, 87, 103, 110}
            => stats[p].total = stats[p].a + stats[p].b

C11_Witness ==
    \E p \in Procs :
        /\ pc[p] = "done"
        /\ statsRet[p] = 103
        /\ stats[p].a = 1
        /\ stats[p].b = 1
        /\ stats[p].total = 2

\* C12: the health check reports, for each of the two stores, whether its
\* probe succeeded: the Redis field says connected exactly when Redis answers
\* and a field for the ledger says connected exactly when the ledger answers.
C12_HealthReportsBothStores ==
    [][\A p \in Procs :
        (pc[p] = "health_redis" /\ Steps(p))
        => /\ health'[p].redis = "connected" <=> queueUp
           /\ IF "database" \in DOMAIN health'[p]
              THEN health'[p].database = "connected" <=> ledgerState = "up"
              ELSE FALSE
      ]_vars

\* C13: the health check never fails: whatever the states of the stores it
\* ends with a normal JSON answer, and Redis not answering is reported as
\* disconnected.
C13_HealthNeverFails ==
    [][\A p \in Procs :
        (pc[p] = "health_redis" /\ Steps(p))
        => /\ pc'[p] = "done"
           /\ resp'[p].format = "json"
           /\ health'[p].status = "healthy"
           /\ health'[p].redis \in {"connected", "disconnected"}
           /\ ~queueUp => health'[p].redis = "disconnected"
      ]_vars

C13_Witness ==
    \E p \in Procs :
        /\ pc[p] = "done"
        /\ req[p].route = "/api/health"
        /\ health[p].redis = "disconnected"
        /\ ~queueUp
        /\ ledgerState = "refuse"

\* C14: a request that brings a non-empty voter token keeps it: voter_id is
\* that token, the record a submit of the request appends carries it, and the
\* cookie the response sets is that token.
C14_TokenReused ==
    [][\A p \in Procs :
        (req'[p].route \in {"/", "/classic"} /\ req'[p].cookie # <<>>)
        => /\ voter_id'[p] = req'[p].cookie
           /\ resp'[p].set_cookie => resp'[p].cookie = req'[p].cookie
           /\ (pc[p] = "vote_push" /\ Steps(p) /\ queue' # queue)
                => queue'[Len(queue')].voter_id = req'[p].cookie
      ]_vars

C14_Witness ==
    \E p \in Procs :
        /\ pc[p] = "done"
        /\ req[p].method = "POST"
        /\ req[p].cookie = <<13, 14, 10, 13, 11, 14, 14, 15>>
        /\ error_message[p] = None
        /\ resp[p].set_cookie
        /\ resp[p].cookie = <<13, 14, 10, 13, 11, 14, 14, 15>>
        /\ \E i \in 1..Len(queue) :
              queue[i].voter_id = <<13, 14, 10, 13, 11, 14, 14, 15>>

\* C15: a token minted for a request without a cookie is never empty,
\* whatever the random draw.
C15_MintedTokenNonEmpty ==
    \A p \in Procs : draw[p] # NoDraw => voter_id[p] # <<>>

\* C16: all minted tokens have the same length, and two different draws give
\* two different tokens.
C16_TokenFixedLengthInjective ==
    \A p, q \in Procs :
        (draw[p] # NoDraw /\ draw[q] # NoDraw)
        => /\ Len(voter_id[p]) = Len(voter_id[q])
           /\ draw[p] # draw[q] => voter_id[p] # voter_id[q]

\* C17: every response to a submit, HTML or JSON, hands the voter token of the
\* request back to the client.
C17_EveryResponseReturnsToken ==
    \A p \in Procs :
        (req[p].method = "POST" /\ pc[p] = "done")
        => /\ resp[p].set_cookie
           /\ resp[p].cookie = voter_id[p]

\* C18: within one call of get_vote_stats the fallback is entered only after
\* the ledger attempt of that call failed, the ledger attempt does not touch
\* Redis, and the counts returned are those of the ledger alone or those read
\* from the list alone (or zeros), never a sum of both.
C18_SourcesExclusive ==
    [][\A p \in Procs :
        Steps(p) =>
          /\ pc'[p] = "stats_redis" => (pc[p] = "stats_db" /\ ledgerState # "up")
          /\ pc'[p] = "stats_lrange" => pc[p] = "stats_redis"
          /\ pc[p] = "stats_db" => g_redis'[p] = g_redis[p]
          /\ (pc[p] = "stats_db" /\ pc'[p] = "done")
               => /\ stats'[p].a = ledger["a"]
                  /\ stats'[p].b = ledger["b"]
          /\ (pc[p] \in {"stats_redis", "stats_lrange"} /\ pc'[p] = "done")
               => \/ /\ stats'[p].a = WellFormed(queue, "a")
                     /\ stats'[p].b = WellFormed(queue, "b")
                  \/ /\ stats'[p].a = 0
                     /\ stats'[p].b = 0
      ]_vars

C18_Witness ==
    \E p \in Procs :
        /\ pc[p] = "done"
        /\ req[p].route = "/api/stats"
        /\ statsRet[p] = 77
        /\ g_redis[p] = "unset"
        /\ queueUp
        /\ ledger["a"] = 3
        /\ stats[p].a = 3
        /\ WellFormed(queue, "a") > 0

\* C19: a submit with a valid option makes one attempt to append and never
\* repeats it: one ping, then one rpush when the ping was answered; a step of a
\* handler that changes the list is an rpush and adds one entry.
C19_OneAppendAttempt ==
    [][\A p \in Procs :
        /\ (Steps(p) /\ queue' # queue)
             => /\ pc[p] = "vote_push"
                /\ Len(queue') = Len(queue) + 1
                /\ rpushes'[p] = rpushes[p] + 1
        /\ ( /\ req'[p].method = "POST"
             /\ req'[p].vote \in {"a", "b"}
             /\ pc'[p] \in {"stats_db", "stats_redis", "stats_lrange", "done"} )
             => /\ rpushes'[p] = IF g_redis'[p] = "handle" THEN 1 ELSE 0
                /\ rpushes'[p] = 0 => error_message'[p] = MsgUnavailable
      ]_vars

C19_Witness ==
    \E p \in Procs :
        /\ pc[p] = "done"
        /\ req[p].vote \in {"a", "b"}
        /\ rpushes[p] = 1
        /\ error_message[p] = MsgFailed
        /\ queue = <<>>

\* number of vote records of q that carry the token vid
TokenRecords(q, vid) ==
    Cardinality({i \in 1..Len(q) : /\ q[i].form = "object"
                                    /\ q[i].vote \in {"a", "b"}
                                    /\ q[i].voter_id = vid})

\* C20: no deduplication at submission: a step of a handler keeps every entry
\* of the list where it was, and each successful submit adds one more record
\* for its voter token, also when the list already holds records of that token.
C20_NoDeduplication ==
    [][\A p \in Procs :
        Steps(p) =>
          /\ Len(queue') >= Len(queue)
          /\ SubSeq(queue', 1, Len(queue)) = queue
          /\ ( /\ pc[p] = "vote_push"
               /\ req[p].vote \in {"a", "b"}
               /\ error_message'[p] = None )
               => TokenRecords(queue', voter_id[p])
                    = TokenRecords(queue, voter_id[p]) + 1
      ]_vars

C20_Witness ==
    /\ Len(queue) = 2
    /\ queue[1] = queue[2]
    /\ queue[1].form = "object"
    /\ queue[1].voter_id = <<13, 14, 10, 13, 11, 14, 14, 15>>
    /\ \E p \in Procs : /\ pc[p] = "done"
                         /\ req[p].method = "POST"
                         /\ voter_id[p] = queue[1].voter_id
                         /\ error_message[p] = None

\* C21: every ledger connection a call of get_vote_stats opens is released on
\* every exit path: once the call has returned, none is open, also when the
\* query failed after the connection was made.
C21_ConnectionsReleased ==
    \A p \in Procs : pc[p] \in {"done", "raised"} => conn[p] = 0

\* C22: a cached Redis handle is validated again before it is reused: when a
\* request that submitted reads the stats (ledger down) while Redis answers,
\* the stats are not the zeros of `if not redis`, whatever the probe of the
\* submit found.
C22_HandleRevalidated ==
    [][\A p \in Procs :
        ( /\ pc[p] = "stats_redis"
          /\ Steps(p)
          /\ req[p].method = "POST"
          /\ queueUp )
        => /\ statsRet'[p] # 87
           /\ pc'[p] = "stats_lrange"
      ]_vars

\* C23: every store access is bounded by a timeout and a timed-out access is
\* a store failure: get_vote_stats, once called, eventually returns a
\* snapshot, also when the ledger hangs; and the POST block of a submission
\* eventually ends, with a StoreUnavailable error when Redis hung at its ping
\* or at its rpush.
C23_StoreAccessBounded ==
    /\ \A p \in Procs :
          (pc[p] = "stats_db") ~> (pc[p] = "done" /\ statsRet[p] # 0)
    /\ \A p \in Procs :
          (pc[p] \in {"vote_redis", "vote_push"}) ~> Posted(p)
    /\ [][\A p \in Procs :
            ( /\ pc[p] \in {"vote_redis", "vote_push"}
              /\ Steps(p)
              /\ req[p].vote \in {"a", "b"}
              /\ queueHang )
            => ErrorKind(error_message'[p]) = "StoreUnavailable"
        ]_vars

\* C24: the vote field of a submit response names an option only if that call
\* appended a record for that option to the list: the step that sets vote also
\* appends the record and sets no error, and a call whose append raised or was
\* not attempted answers with an empty vote field, so that no response carries
\* both a vote and an error.
C24_VoteOnlyIfRecorded ==
    [][\A p \in Procs :
        ( /\ pc[p] \in {"vote_redis", "vote_push"}
          /\ Steps(p)
          /\ vote'[p] # None )
        => /\ queue' = Append(queue, [form |-> "object", vote |-> vote'[p],
                                      voter_id |-> voter_id[p]])
           /\ error_message'[p] = None
      ]_vars

\* C25: read your own write in the JSON submit: when the submit appended its
\* record and the stats of its response are read from the list (ledger down,
\* Redis answering the read), the count of the option voted is at least 1,
\* the record just appended being counted.
C25_ReadYourOwnWrite ==
    [][\A p \in Procs :
        ( /\ pc[p] = "stats_lrange"
          /\ Steps(p)
          /\ req[p].method = "POST"
          /\ vote[p] \in {"a", "b"}
          /\ error_message[p] = None
          /\ queueUp )
        => stats'[p][vote[p]] >= 1
      ]_vars

====
